---- MODULE Spec2Model ----
(***************************************************************************)
(* Model of import_companies.py: the import of the corporate-number CSV    *)
(* into a relational table.  Text is a sequence of one-character strings,  *)
(* so that strip, lower, isdigit, zfill and the parsers are computed as    *)
(* the code computes them.  A character outside ASCII is written by its    *)
(* code point, "U+6CD5", and counts as one character.                      *)
(***************************************************************************)
EXTENDS Integers, Sequences, FiniteSets, TLC

VARIABLES
    pc,            \* where main() is: idle, ensure, insert, open, rows, flush, finish, done, aborted
    cfg,           \* args: the configuration of this run
    keys,          \* prepare_records: type_key, corporate_key, name_key once resolved
    header,        \* read_rows: unread, empty, header or headerless
    file,          \* the physical rows of the CSV file read so far
    pos,           \* read_rows: how many physical rows dict_reader has consumed
    batch,         \* insert_records: batch
    total_inserted,\* insert_records: total_inserted
    txn,           \* the rows of the table as the open transaction of conn sees them
    committed,     \* the rows of the table as committed in the store
    schema,        \* the table: exists, columns, primary key, column comments
    runs,          \* how many times main() was started
    drawn,         \* how many physical rows were read, over all runs
    last,          \* the last row prepare_records handled: physical, row, outcome, record, field
    emitted,       \* records yielded by prepare_records in this run
    skipped,       \* rows of this run dropped for a failed transform
    flushed,       \* records of this run whose execute_batch returned
    log,           \* records written by committed transactions, oldest first
    cause,         \* why the run aborted: schema, config or flush
    ensured,       \* how many ensure_table calls succeeded
    before,        \* the schema before the ensure_table call just made
    ddl,           \* the structural statements of the ensure_table call just made
    ncnInput,      \* normalize_corporate_number: the raw_value argument
    ncnResult      \* normalize_corporate_number: pending, the returned text or a ValueError

(***************************************************************************)
(* Characters and the str methods the code uses.                           *)
(***************************************************************************)
None == <<"None">>

DigitChars == {"0", "1", "2", "3", "4", "5", "6", "7", "8", "9"}

WhitespaceChars == {" ", "\t"}

BOM == "U+FEFF"

IsDigit(ch) == ch \in DigitChars

DigitValue(ch) ==
    CASE ch = "0" -> 0 [] ch = "1" -> 1 [] ch = "2" -> 2 [] ch = "3" -> 3
      [] ch = "4" -> 4 [] ch = "5" -> 5 [] ch = "6" -> 6 [] ch = "7" -> 7
      [] ch = "8" -> 8 [] ch = "9" -> 9

LowerChar(ch) ==
    CASE ch = "A" -> "a" [] ch = "B" -> "b" [] ch = "C" -> "c" [] ch = "D" -> "d"
      [] ch = "E" -> "e" [] ch = "F" -> "f" [] ch = "G" -> "g" [] ch = "H" -> "h"
      [] ch = "I" -> "i" [] ch = "J" -> "j" [] ch = "K" -> "k" [] ch = "L" -> "l"
      [] ch = "M" -> "m" [] ch = "N" -> "n" [] ch = "O" -> "o" [] ch = "P" -> "p"
      [] ch = "Q" -> "q" [] ch = "R" -> "r" [] ch = "S" -> "s" [] ch = "T" -> "t"
      [] ch = "U" -> "u" [] ch = "V" -> "v" [] ch = "W" -> "w" [] ch = "X" -> "x"
      [] ch = "Y" -> "y" [] ch = "Z" -> "z" [] OTHER -> ch

\* str.lower()
Lower(text) == [i \in 1..Len(text) |-> LowerChar(text[i])]

RECURSIVE LStripChars(_, _)
\* str.lstrip(chars)
LStripChars(text, chars) ==
    IF text # <<>> /\ Head(text) \in chars THEN LStripChars(Tail(text), chars) ELSE text

RECURSIVE RStripChars(_, _)
\* str.rstrip(chars)
RStripChars(text, chars) ==
    IF text # <<>> /\ text[Len(text)] \in chars
    THEN RStripChars(SubSeq(text, 1, Len(text) - 1), chars)
    ELSE text

\* str.strip(chars)
StripChars(text, chars) == RStripChars(LStripChars(text, chars), chars)

\* str.strip()
Strip(text) == StripChars(text, WhitespaceChars)

\* (value or ""): None and the empty string both give ""
OrEmpty(value) == IF value = None THEN <<>> ELSE value

\* str.replace(ch, "")
Remove(text, ch) == SelectSeq(text, LAMBDA c : c # ch)

\* "".join(ch for ch in text if ch.isdigit())
OnlyDigits(text) == SelectSeq(text, IsDigit)

AllDigits(text) == \A i \in 1..Len(text) : IsDigit(text[i])

\* str.isdigit(): non-empty and every character a digit
IsDigitStr(text) == text # <<>> /\ AllDigits(text)

Zeros(n) == [i \in 1..n |-> "0"]

\* str.zfill(width) of a text without a sign
ZFill(text, width) == IF Len(text) >= width THEN text ELSE Zeros(width - Len(text)) \o text

RECURSIVE DigitsToNat(_)
\* int() of a digit string
DigitsToNat(text) ==
    IF text = <<>> THEN 0
    ELSE 10 * DigitsToNat(SubSeq(text, 1, Len(text) - 1)) + DigitValue(text[Len(text)])

ValueError(reason) == <<"ValueError", reason>>

IsError(value) == value[1] = "ValueError"

Str(text) == <<"str", text>>

(***************************************************************************)
(* decimal.Decimal(text) and format(value, "f"), for a text that holds no  *)
(* hyphen (normalize_corporate_number removes them before the call).       *)
(***************************************************************************)
IndexOf(text, chars) ==
    IF \E i \in 1..Len(text) : text[i] \in chars
    THEN CHOOSE i \in 1..Len(text) : text[i] \in chars /\ \A j \in 1..(i - 1) : text[j] \notin chars
    ELSE 0

\* the text without one leading sign
Unsigned(text) == IF text # <<>> /\ Head(text) \in {"+", "-"} THEN Tail(text) ELSE text

\* text cut at position at: what is before it and what is after it, or the whole text
\* and None when at is 0
Partition(text, at) ==
    IF at = 0 THEN <<text, None>>
    ELSE <<SubSeq(text, 1, at - 1), SubSeq(text, at + 1, Len(text))>>

\* str.partition at the first of chars
PartitionAt(text, chars) == Partition(text, IndexOf(text, chars))

DecimalRecord(mantissa, exponent) ==
    [int  |-> mantissa[1],
     frac |-> OrEmpty(mantissa[2]),
     sign |-> IF exponent # <<>> /\ Head(exponent) = "-" THEN -1 ELSE 1,
     exp  |-> Unsigned(exponent)]

DecimalSplit(parts) ==
    DecimalRecord(PartitionAt(parts[1], {"."}), IF parts[2] = None THEN <<"0">> ELSE parts[2])

\* [int, frac, sign, exp] of sign? digits? (. digits?)? (E sign? digits)?
DecimalParts(text) == DecimalSplit(PartitionAt(Unsigned(Strip(Remove(text, "_"))), {"e", "E"}))

\* Decimal(text) does not raise InvalidOperation, p being the parts of text
DecimalValid(p) ==
    /\ AllDigits(p.int) /\ AllDigits(p.frac)
    /\ p.int \o p.frac # <<>>
    /\ IsDigitStr(p.exp)

\* the digits of a coefficient with the decimal point dotplace digits from its left
DecimalPlace(int, dotplace) ==
    IF dotplace <= 0 THEN <<"0">> \o Zeros(-dotplace) \o int
    ELSE IF dotplace >= Len(int) THEN int \o Zeros(dotplace - Len(int))
    ELSE int

DecimalFormat(coeff, exp) ==
    IF coeff = <<>> THEN DecimalPlace(<<"0">>, (IF exp > 0 THEN 0 ELSE exp) + 1)
    ELSE DecimalPlace(coeff, exp + Len(coeff))

\* format(Decimal(text), "f").replace(".", "") of a valid, non-negative text, p being
\* the parts of text
DecimalPlainDigits(p) ==
    DecimalFormat(LStripChars(p.int \o p.frac, {"0"}), p.sign * DigitsToNat(p.exp) - Len(p.frac))

(***************************************************************************)
(* The field transforms.                                                   *)
(***************************************************************************)
CorporateNumberWidth == 13

\* a plausible slip: the identifier is padded but its length is never checked
CheckedLengthUnchecked(normalized) == Str(normalized)

\* normalize_corporate_number: the length check and the return
CheckedLength(normalized) ==
    IF Len(normalized) # CorporateNumberWidth
    THEN ValueError("corporate number should be 13 digits")
    ELSE Str(normalized)

\* normalize_corporate_number: the branch of scientific notation, p being the parts of
\* the text
NormalizeDecimal(p) ==
    IF ~DecimalValid(p) THEN ValueError("invalid scientific notation corporate number")
    ELSE CheckedLength(ZFill(DecimalPlainDigits(p), CorporateNumberWidth))

\* normalize_corporate_number from the text without whitespace and hyphens on
NormalizeText(text) ==
    IF text = <<>> THEN ValueError("corporate number is empty")
    ELSE IF \E i \in 1..Len(text) : LowerChar(text[i]) = "e"
    THEN NormalizeDecimal(DecimalParts(text))
    ELSE CheckedLength(ZFill(OnlyDigits(text), CorporateNumberWidth))

\* normalize_corporate_number
NormalizeCorporateNumber(raw_value) == NormalizeText(Remove(Strip(OrEmpty(raw_value)), "-"))

\* normalize_optional_corporate_number
NormalizeOptionalCorporateNumber(raw_value) ==
    LET text == Strip(OrEmpty(raw_value))
    IN  IF text = <<>> THEN None ELSE NormalizeCorporateNumber(text)

\* default_transform
DefaultTransform(value) ==
    IF value = None THEN None
    ELSE LET text == Strip(value) IN IF text = <<>> THEN None ELSE Str(text)

\* int(text) accepts: sign? digit (_? digit)*
IntLiteralValid(text) ==
    LET body == Unsigned(text)
    IN  /\ body # <<>>
        /\ \A i \in 1..Len(body) : IsDigit(body[i]) \/ body[i] = "_"
        /\ IsDigit(body[1]) /\ IsDigit(body[Len(body)])
        /\ \A i \in 1..(Len(body) - 1) : ~(body[i] = "_" /\ body[i + 1] = "_")

\* to_int
ToInt(value) ==
    LET text == Strip(OrEmpty(value))
    IN  IF text = <<>> THEN None
        ELSE IF ~IntLiteralValid(text) THEN ValueError("expected integer")
        ELSE <<"int", (IF Head(text) = "-" THEN -1 ELSE 1)
                        * DigitsToNat(Remove(Unsigned(text), "_"))>>

TrueFlags == {<<"1">>, <<"t", "r", "u", "e">>, <<"t">>, <<"y", "e", "s">>}

FalseFlags == {<<"0">>, <<"f", "a", "l", "s", "e">>, <<"f">>, <<"n", "o">>}

\* to_bool_flag
ToBoolFlag(value) ==
    LET text == Lower(Strip(OrEmpty(value)))
    IN  IF text = <<>> THEN None
        ELSE IF text \in TrueFlags THEN <<"bool", TRUE>>
        ELSE IF text \in FalseFlags THEN <<"bool", FALSE>>
        ELSE ValueError("expected boolean flag")

\* normalize_postal_code
NormalizePostalCode(value) ==
    LET text == Strip(OrEmpty(value))
    IN  IF text = <<>> THEN None
        ELSE LET digits == OnlyDigits(text) IN IF digits = <<>> THEN None ELSE Str(digits)

(***************************************************************************)
(* parse_date: datetime.strptime over DATE_PATTERNS.  A pattern is the     *)
(* separator it puts between %Y, %m and %d ("" for %Y%m%d).                *)
(***************************************************************************)
DATE_PATTERNS == <<"-", "/", ".", "">>

NonZeroDigits == DigitChars \ {"0"}

\* %m is (1[0-2]|0[1-9]|[1-9]): the token lengths that match, in the order tried
MonthTokenLens(t) ==
    (IF Len(t) >= 2 /\ ((t[1] = "1" /\ t[2] \in {"0", "1", "2"}) \/ (t[1] = "0" /\ t[2] \in NonZeroDigits))
     THEN <<2>> ELSE <<>>)
    \o (IF Len(t) >= 1 /\ t[1] \in NonZeroDigits THEN <<1>> ELSE <<>>)

\* %d is (3[01]|[12]\d|0[1-9]|[1-9]| [1-9]): the length of the token matched, 0 if none
DayTokenLen(t) ==
    IF Len(t) >= 2 /\ t[1] = "3" /\ t[2] \in {"0", "1"} THEN 2
    ELSE IF Len(t) >= 2 /\ t[1] \in {"1", "2"} /\ IsDigit(t[2]) THEN 2
    ELSE IF Len(t) >= 2 /\ t[1] = "0" /\ t[2] \in NonZeroDigits THEN 2
    ELSE IF Len(t) >= 1 /\ t[1] \in NonZeroDigits THEN 1
    ELSE IF Len(t) >= 2 /\ t[1] = " " /\ t[2] \in NonZeroDigits THEN 2
    ELSE 0

\* the text after a separator, <<"no">> when the separator is not there
AfterSep(t, sep) ==
    IF sep = "" THEN t
    ELSE IF t # <<>> /\ Head(t) = sep THEN Tail(t)
    ELSE <<"no">>

IsLeap(y) == (y % 4 = 0 /\ y % 100 # 0) \/ y % 400 = 0

DaysInMonth(y, m) ==
    IF m = 2 THEN (IF IsLeap(y) THEN 29 ELSE 28)
    ELSE IF m \in {4, 6, 9, 11} THEN 30 ELSE 31

\* strptime(text, pattern).date(): <<"date", y, m, d>>, or a ValueError
Strptime(text, sep) ==
    IF ~(Len(text) >= 4 /\ AllDigits(SubSeq(text, 1, 4))) THEN ValueError("does not match format")
    ELSE
    LET y      == DigitsToNat(SubSeq(text, 1, 4))
        rest   == AfterSep(SubSeq(text, 5, Len(text)), sep)
        Day(k) == AfterSep(SubSeq(rest, k + 1, Len(rest)), sep)
        lens   == IF rest = <<"no">> THEN <<>>
                  ELSE SelectSeq(MonthTokenLens(rest), LAMBDA k : DayTokenLen(Day(k)) > 0)
    IN  IF lens = <<>> THEN ValueError("does not match format")
        ELSE LET k == Head(lens)
                 n == DayTokenLen(Day(k))
                 m == DigitsToNat(SubSeq(rest, 1, k))
                 d == DigitsToNat(OnlyDigits(SubSeq(Day(k), 1, n)))
             IN  IF Len(Day(k)) # n THEN ValueError("unconverted data remains")
                 ELSE IF y < 1 \/ d > DaysInMonth(y, m) THEN ValueError("out of range")
                 ELSE <<"date", y, m, d>>

\* parse_date
ParseDate(value) ==
    LET text == Strip(OrEmpty(value))
        ok   == SelectSeq(DATE_PATTERNS, LAMBDA sep : ~IsError(Strptime(text, sep)))
    IN  IF text = <<>> THEN None
        ELSE IF ok # <<>> THEN Strptime(text, Head(ok))
        ELSE ValueError("unrecognized date format")

\* column.transform(raw_value)
ApplyTransform(transform, raw_value) ==
    CASE transform = "to_int" -> ToInt(raw_value)
      [] transform = "normalize_corporate_number" -> NormalizeCorporateNumber(raw_value)
      [] transform = "normalize_optional_corporate_number" -> NormalizeOptionalCorporateNumber(raw_value)
      [] transform = "parse_date" -> ParseDate(raw_value)
      [] transform = "to_bool_flag" -> ToBoolFlag(raw_value)
      [] transform = "normalize_postal_code" -> NormalizePostalCode(raw_value)
      [] transform = "default_transform" -> DefaultTransform(raw_value)

(***************************************************************************)
(* The column registry.                                                    *)
(***************************************************************************)
DEFAULT_GENERAL_TYPE_CODES == << <<"3", "0", "1">>, <<"3", "0", "2">>, <<"3", "0", "3">>,
                                 <<"3", "0", "4">>, <<"3", "0", "5">> >>

PRIMARY_KEY_COLUMN == "corporate_number"

MEIREI_COLUMNS == <<
    [csv_field   |-> <<"s","e","q","u","e","n","c","e","N","u","m","b","e","r">>,
     db_column   |-> "sequence_number",
     pg_type     |-> "BIGINT",
     description |-> "<U+547D><U+4EE4><U+898F><U+5247><U+5225><U+8868> <U+9805>7: <U+9806><U+5E8F><U+756A><U+53F7>",
     aliases     |-> <<<<"U+9806","U+5E8F","U+756A","U+53F7">>>>,
     transform   |-> "to_int"],
    [csv_field   |-> <<"c","o","r","p","o","r","a","t","e","N","u","m","b","e","r">>,
     db_column   |-> "corporate_number",
     pg_type     |-> "CHAR(13)",
     description |-> "<U+547D><U+4EE4><U+898F><U+5247><U+5225><U+8868> <U+9805>8: <U+6CD5><U+4EBA><U+756A><U+53F7>",
     aliases     |-> <<<<"U+6CD5","U+4EBA","U+756A","U+53F7">>>>,
     transform   |-> "normalize_corporate_number"],
    [csv_field   |-> <<"p","r","o","c","e","s","s">>,
     db_column   |-> "process",
     pg_type     |-> "TEXT",
     description |-> "<U+547D><U+4EE4><U+898F><U+5247><U+5225><U+8868> <U+9805>9: <U+51E6><U+7406><U+533A><U+5206>",
     aliases     |-> <<<<"U+51E6","U+7406","U+533A","U+5206">>>>,
     transform   |-> "default_transform"],
    [csv_field   |-> <<"c","o","r","r","e","c","t">>,
     db_column   |-> "correct",
     pg_type     |-> "TEXT",
     description |-> "<U+547D><U+4EE4><U+898F><U+5247><U+5225><U+8868> <U+9805>10: <U+8A02><U+6B63><U+533A><U+5206>",
     aliases     |-> <<<<"U+8A02","U+6B63","U+533A","U+5206">>>>,
     transform   |-> "default_transform"],
    [csv_field   |-> <<"u","p","d","a","t","e","D","a","t","e">>,
     db_column   |-> "update_date",
     pg_type     |-> "DATE",
     description |-> "<U+547D><U+4EE4><U+898F><U+5247><U+5225><U+8868> <U+9805>11: <U+66F4><U+65B0><U+5E74><U+6708><U+65E5>",
     aliases     |-> <<<<"U+66F4","U+65B0","U+5E74","U+6708","U+65E5">>>>,
     transform   |-> "parse_date"],
    [csv_field   |-> <<"c","h","a","n","g","e","D","a","t","e">>,
     db_column   |-> "change_date",
     pg_type     |-> "DATE",
     description |-> "<U+547D><U+4EE4><U+898F><U+5247><U+5225><U+8868> <U+9805>12: <U+5909><U+66F4><U+5E74><U+6708><U+65E5>",
     aliases     |-> <<<<"U+5909","U+66F4","U+5E74","U+6708","U+65E5">>>>,
     transform   |-> "parse_date"],
    [csv_field   |-> <<"n","a","m","e">>,
     db_column   |-> "name",
     pg_type     |-> "TEXT",
     description |-> "<U+547D><U+4EE4><U+898F><U+5247><U+5225><U+8868> <U+9805>13: <U+5546><U+53F7><U+53C8><U+306F><U+540D><U+79F0>",
     aliases     |-> <<<<"U+5546","U+53F7","U+53C8","U+306F","U+540D","U+79F0">>>>,
     transform   |-> "default_transform"],
    [csv_field   |-> <<"n","a","m","e","I","m","a","g","e","I","d">>,
     db_column   |-> "name_image_id",
     pg_type     |-> "TEXT",
     description |-> "<U+547D><U+4EE4><U+898F><U+5247><U+5225><U+8868> <U+9805>14: <U+5546><U+53F7><U+53C8><U+306F><U+540D><U+79F0><U+30A4><U+30E1><U+30FC><U+30B8>ID",
     aliases     |-> <<<<"U+5546","U+53F7","U+53C8","U+306F","U+540D","U+79F0","U+30A4","U+30E1","U+30FC","U+30B8","I","D">>>>,
     transform   |-> "default_transform"],
    [csv_field   |-> <<"k","i","n","d">>,
     db_column   |-> "kind",
     pg_type     |-> "TEXT",
     description |-> "<U+547D><U+4EE4><U+898F><U+5247><U+5225><U+8868> <U+9805>15: <U+6CD5><U+4EBA><U+7A2E><U+5225>",
     aliases     |-> <<<<"U+6CD5","U+4EBA","U+7A2E","U+5225">>, <<"U+6CD5","U+4EBA","U+7A2E","U+5225","U+30B3","U+30FC","U+30C9">>>>,
     transform   |-> "default_transform"],
    [csv_field   |-> <<"p","r","e","f","e","c","t","u","r","e","N","a","m","e">>,
     db_column   |-> "prefecture_name",
     pg_type     |-> "TEXT",
     description |-> "<U+547D><U+4EE4><U+898F><U+5247><U+5225><U+8868> <U+9805>16: <U+56FD><U+5185><U+6240><U+5728><U+5730><U+FF08><U+90FD><U+9053><U+5E9C><U+770C><U+FF09>",
     aliases     |-> <<<<"U+90FD","U+9053","U+5E9C","U+770C","U+540D">>, <<"U+56FD","U+5185","U+6240","U+5728","U+5730","U+FF08","U+90FD","U+9053","U+5E9C","U+770C","U+FF09">>>>,
     transform   |-> "default_transform"],
    [csv_field   |-> <<"c","i","t","y","N","a","m","e">>,
     db_column   |-> "city_name",
     pg_type     |-> "TEXT",
     description |-> "<U+547D><U+4EE4><U+898F><U+5247><U+5225><U+8868> <U+9805>17: <U+56FD><U+5185><U+6240><U+5728><U+5730><U+FF08><U+5E02><U+533A><U+753A><U+6751><U+FF09>",
     aliases     |-> <<<<"U+5E02","U+533A","U+753A","U+6751","U+540D">>, <<"U+56FD","U+5185","U+6240","U+5728","U+5730","U+FF08","U+5E02","U+533A","U+753A","U+6751","U+FF09">>>>,
     transform   |-> "default_transform"],
    [csv_field   |-> <<"s","t","r","e","e","t","N","u","m","b","e","r">>,
     db_column   |-> "street_number",
     pg_type     |-> "TEXT",
     description |-> "<U+547D><U+4EE4><U+898F><U+5247><U+5225><U+8868> <U+9805>18: <U+56FD><U+5185><U+6240><U+5728><U+5730><U+FF08><U+4E01><U+76EE><U+756A><U+5730><U+7B49><U+FF09>",
     aliases     |-> <<<<"U+4E01","U+76EE","U+756A","U+5730","U+7B49">>, <<"U+56FD","U+5185","U+6240","U+5728","U+5730","U+FF08","U+4E01","U+76EE","U+756A","U+5730","U+7B49","U+FF09">>>>,
     transform   |-> "default_transform"],
    [csv_field   |-> <<"a","d","d","r","e","s","s","I","m","a","g","e","I","d">>,
     db_column   |-> "address_image_id",
     pg_type     |-> "TEXT",
     description |-> "<U+547D><U+4EE4><U+898F><U+5247><U+5225><U+8868> <U+9805>19: <U+6240><U+5728><U+5730><U+30A4><U+30E1><U+30FC><U+30B8>ID",
     aliases     |-> <<<<"U+6240","U+5728","U+5730","U+30A4","U+30E1","U+30FC","U+30B8","I","D">>>>,
     transform   |-> "default_transform"],
    [csv_field   |-> <<"p","r","e","f","e","c","t","u","r","e","C","o","d","e">>,
     db_column   |-> "prefecture_code",
     pg_type     |-> "TEXT",
     description |-> "<U+547D><U+4EE4><U+898F><U+5247><U+5225><U+8868> <U+9805>20: <U+90FD><U+9053><U+5E9C><U+770C><U+30B3><U+30FC><U+30C9>",
     aliases     |-> <<<<"U+90FD","U+9053","U+5E9C","U+770C","U+30B3","U+30FC","U+30C9">>>>,
     transform   |-> "default_transform"],
    [csv_field   |-> <<"c","i","t","y","C","o","d","e">>,
     db_column   |-> "city_code",
     pg_type     |-> "TEXT",
     description |-> "<U+547D><U+4EE4><U+898F><U+5247><U+5225><U+8868> <U+9805>21: <U+5E02><U+533A><U+753A><U+6751><U+30B3><U+30FC><U+30C9>",
     aliases     |-> <<<<"U+5E02","U+533A","U+753A","U+6751","U+30B3","U+30FC","U+30C9">>>>,
     transform   |-> "default_transform"],
    [csv_field   |-> <<"p","o","s","t","C","o","d","e">>,
     db_column   |-> "post_code",
     pg_type     |-> "TEXT",
     description |-> "<U+547D><U+4EE4><U+898F><U+5247><U+5225><U+8868> <U+9805>22: <U+90F5><U+4FBF><U+756A><U+53F7>",
     aliases     |-> <<<<"U+90F5","U+4FBF","U+756A","U+53F7">>>>,
     transform   |-> "normalize_postal_code"],
    [csv_field   |-> <<"a","d","d","r","e","s","s","O","u","t","s","i","d","e">>,
     db_column   |-> "address_outside",
     pg_type     |-> "TEXT",
     description |-> "<U+547D><U+4EE4><U+898F><U+5247><U+5225><U+8868> <U+9805>23: <U+56FD><U+5916><U+6240><U+5728><U+5730>",
     aliases     |-> <<<<"U+56FD","U+5916","U+6240","U+5728","U+5730">>>>,
     transform   |-> "default_transform"],
    [csv_field   |-> <<"a","d","d","r","e","s","s","O","u","t","s","i","d","e","I","m","a","g","e","I","d">>,
     db_column   |-> "address_outside_image_id",
     pg_type     |-> "TEXT",
     description |-> "<U+547D><U+4EE4><U+898F><U+5247><U+5225><U+8868> <U+9805>24: <U+56FD><U+5916><U+6240><U+5728><U+5730><U+30A4><U+30E1><U+30FC><U+30B8>ID",
     aliases     |-> <<<<"U+56FD","U+5916","U+6240","U+5728","U+5730","U+30A4","U+30E1","U+30FC","U+30B8","I","D">>>>,
     transform   |-> "default_transform"],
    [csv_field   |-> <<"c","l","o","s","e","D","a","t","e">>,
     db_column   |-> "close_date",
     pg_type     |-> "DATE",
     description |-> "<U+547D><U+4EE4><U+898F><U+5247><U+5225><U+8868> <U+9805>25: <U+767B><U+8A18><U+8A18><U+9332><U+306E><U+9589><U+9396><U+7B49><U+5E74><U+6708><U+65E5>",
     aliases     |-> <<<<"U+767B","U+8A18","U+8A18","U+9332","U+306E","U+9589","U+9396","U+7B49","U+5E74","U+6708","U+65E5">>>>,
     transform   |-> "parse_date"],
    [csv_field   |-> <<"c","l","o","s","e","C","a","u","s","e">>,
     db_column   |-> "close_cause",
     pg_type     |-> "TEXT",
     description |-> "<U+547D><U+4EE4><U+898F><U+5247><U+5225><U+8868> <U+9805>26: <U+767B><U+8A18><U+8A18><U+9332><U+306E><U+9589><U+9396><U+7B49><U+306E><U+4E8B><U+7531>",
     aliases     |-> <<<<"U+767B","U+8A18","U+8A18","U+9332","U+306E","U+9589","U+9396","U+7B49","U+306E","U+4E8B","U+7531">>>>,
     transform   |-> "default_transform"],
    [csv_field   |-> <<"s","u","c","c","e","s","s","o","r","C","o","r","p","o","r","a","t","e","N","u","m","b","e","r">>,
     db_column   |-> "successor_corporate_number",
     pg_type     |-> "CHAR(13)",
     description |-> "<U+547D><U+4EE4><U+898F><U+5247><U+5225><U+8868> <U+9805>27: <U+627F><U+7D99><U+5148><U+6CD5><U+4EBA><U+756A><U+53F7>",
     aliases     |-> <<<<"U+627F","U+7D99","U+5148","U+6CD5","U+4EBA","U+756A","U+53F7">>>>,
     transform   |-> "normalize_optional_corporate_number"],
    [csv_field   |-> <<"c","h","a","n","g","e","C","a","u","s","e">>,
     db_column   |-> "change_cause",
     pg_type     |-> "TEXT",
     description |-> "<U+547D><U+4EE4><U+898F><U+5247><U+5225><U+8868> <U+9805>28: <U+5909><U+66F4><U+4E8B><U+7531>",
     aliases     |-> <<<<"U+5909","U+66F4","U+4E8B","U+7531">>>>,
     transform   |-> "default_transform"],
    [csv_field   |-> <<"a","s","s","i","g","n","m","e","n","t","D","a","t","e">>,
     db_column   |-> "assignment_date",
     pg_type     |-> "DATE",
     description |-> "<U+547D><U+4EE4><U+898F><U+5247><U+5225><U+8868> <U+9805>29: <U+6CD5><U+4EBA><U+756A><U+53F7><U+6307><U+5B9A><U+5E74><U+6708><U+65E5>",
     aliases     |-> <<<<"U+6CD5","U+4EBA","U+756A","U+53F7","U+6307","U+5B9A","U+5E74","U+6708","U+65E5">>>>,
     transform   |-> "parse_date"],
    [csv_field   |-> <<"l","a","t","e","s","t">>,
     db_column   |-> "latest",
     pg_type     |-> "BOOLEAN",
     description |-> "<U+547D><U+4EE4><U+898F><U+5247><U+5225><U+8868> <U+9805>30: <U+6700><U+65B0><U+5C65><U+6B74><U+7B49>",
     aliases     |-> <<<<"U+6700","U+65B0","U+5C65","U+6B74","U+7B49">>>>,
     transform   |-> "to_bool_flag"],
    [csv_field   |-> <<"e","n","N","a","m","e">>,
     db_column   |-> "en_name",
     pg_type     |-> "TEXT",
     description |-> "<U+547D><U+4EE4><U+898F><U+5247><U+5225><U+8868> <U+9805>31: <U+5546><U+53F7><U+53C8><U+306F><U+540D><U+79F0><U+FF08><U+82F1><U+8A9E><U+8868><U+8A18><U+FF09>",
     aliases     |-> <<<<"U+5546","U+53F7","U+53C8","U+306F","U+540D","U+79F0","U+FF08","U+82F1","U+8A9E","U+8868","U+8A18","U+FF09">>>>,
     transform   |-> "default_transform"],
    [csv_field   |-> <<"e","n","P","r","e","f","e","c","t","u","r","e","N","a","m","e">>,
     db_column   |-> "en_prefecture_name",
     pg_type     |-> "TEXT",
     description |-> "<U+547D><U+4EE4><U+898F><U+5247><U+5225><U+8868> <U+9805>32: <U+90FD><U+9053><U+5E9C><U+770C><U+540D><U+FF08><U+82F1><U+8A9E><U+8868><U+8A18><U+FF09>",
     aliases     |-> <<<<"U+90FD","U+9053","U+5E9C","U+770C","U+540D","U+FF08","U+82F1","U+8A9E","U+8868","U+8A18","U+FF09">>>>,
     transform   |-> "default_transform"],
    [csv_field   |-> <<"e","n","C","i","t","y","N","a","m","e">>,
     db_column   |-> "en_city_name",
     pg_type     |-> "TEXT",
     description |-> "<U+547D><U+4EE4><U+898F><U+5247><U+5225><U+8868> <U+9805>33: <U+5E02><U+533A><U+753A><U+6751><U+540D><U+FF08><U+82F1><U+8A9E><U+8868><U+8A18><U+FF09>",
     aliases     |-> <<<<"U+5E02","U+533A","U+753A","U+6751","U+540D","U+FF08","U+82F1","U+8A9E","U+8868","U+8A18","U+FF09">>>>,
     transform   |-> "default_transform"],
    [csv_field   |-> <<"e","n","A","d","d","r","e","s","s","O","u","t","s","i","d","e">>,
     db_column   |-> "en_address_outside",
     pg_type     |-> "TEXT",
     description |-> "<U+547D><U+4EE4><U+898F><U+5247><U+5225><U+8868> <U+9805>34: <U+56FD><U+5916><U+6240><U+5728><U+5730><U+FF08><U+82F1><U+8A9E><U+8868><U+8A18><U+FF09>",
     aliases     |-> <<<<"U+56FD","U+5916","U+6240","U+5728","U+5730","U+FF08","U+82F1","U+8A9E","U+8868","U+8A18","U+FF09">>>>,
     transform   |-> "default_transform"],
    [csv_field   |-> <<"f","u","r","i","g","a","n","a">>,
     db_column   |-> "furigana",
     pg_type     |-> "TEXT",
     description |-> "<U+547D><U+4EE4><U+898F><U+5247><U+5225><U+8868> <U+9805>35: <U+30D5><U+30EA><U+30AC><U+30CA>",
     aliases     |-> <<<<"U+30D5","U+30EA","U+30AC","U+30CA">>>>,
     transform   |-> "default_transform"],
    [csv_field   |-> <<"h","i","h","y","o","j","i">>,
     db_column   |-> "hihyoji",
     pg_type     |-> "TEXT",
     description |-> "<U+547D><U+4EE4><U+898F><U+5247><U+5225><U+8868> <U+9805>36: <U+975E><U+8868><U+793A><U+7406><U+7531>",
     aliases     |-> <<<<"U+975E","U+8868","U+793A","U+7406","U+7531">>, <<"U+5099","U+8003">>>>,
     transform   |-> "default_transform"]
>>

NumColumns == Len(MEIREI_COLUMNS)

\* the elements of a sequence
Range(seq) == {seq[i] : i \in 1..Len(seq)}

\* (column.csv_field, *column.aliases), each as written and in lower case
LookupKeysOf(column) ==
    {column.csv_field, Lower(column.csv_field)}
    \cup Range(column.aliases) \cup {Lower(alias) : alias \in Range(column.aliases)}

\* the dict the loop over the columns leaves: under each key the csv_field of the last
\* column that assigns it
BuildLookup(columns) ==
    [key \in UNION {LookupKeysOf(columns[i]) : i \in 1..Len(columns)} |->
        columns[CHOOSE i \in 1..Len(columns) :
                   /\ key \in LookupKeysOf(columns[i])
                   /\ \A j \in (i + 1)..Len(columns) : key \notin LookupKeysOf(columns[j])].csv_field]

COLUMN_NAME_LOOKUP == BuildLookup(MEIREI_COLUMNS)

\* dict.get(key)
DictGet(d, key) == IF key \in DOMAIN d THEN d[key] ELSE None

\* COLUMN_NAME_LOOKUP.get(key)
LookupGet(key) == DictGet(COLUMN_NAME_LOOKUP, key)

\* [column.csv_field for column in columns]
CsvFields(columns) == [i \in 1..Len(columns) |-> columns[i].csv_field]

ROW_FIELDNAMES == CsvFields(MEIREI_COLUMNS)

FieldNames == Range(ROW_FIELDNAMES)

KeyError(reason) == <<"KeyError", reason>>

IsKeyError(value) == value[1] = "KeyError"

\* a or b, or otherwise when both are None
FirstMapped(a, b, otherwise) == IF a # None THEN a ELSE IF b # None THEN b ELSE otherwise

\* a plausible slip: a name the lookup does not hold is passed through instead of refused
ResolveKeyLenient(key) == FirstMapped(LookupGet(key), LookupGet(Lower(key)), key)

\* resolve_column_key from the stripped name on
ResolveKey(key) ==
    IF key = <<>> THEN KeyError("column name is empty")
    ELSE FirstMapped(LookupGet(key), LookupGet(Lower(key)), KeyError("unknown column"))

\* resolve_column_key
ResolveColumnKey(column_name) == ResolveKey(Strip(column_name))

\* a plausible slip: an empty first cell is taken for a header cell
HeaderCellEmptyIsHeader(first_cell) == ~IsDigitStr(first_cell)

\* row_looks_like_header from the cleaned first cell on
HeaderCell(first_cell) == IF first_cell = <<>> THEN FALSE ELSE ~IsDigitStr(first_cell)

\* row_looks_like_header
RowLooksLikeHeader(first_row) ==
    IF first_row = <<>> THEN FALSE
    ELSE HeaderCell(StripChars(Strip(LStripChars(first_row[1], {BOM})), {"\""}))

(***************************************************************************)
(* A dict is the sequence of its <<key, value>> items in insertion order.  *)
(***************************************************************************)
\* csv.DictReader: the dict made of one non-empty physical row (restkey and restval are
\* None).  dict(zip(fieldnames, row)) keeps a key where it first appears and the value
\* given to it last; the names beyond the row are then set to None.
DictReaderRow(fieldnames, row) ==
    LET lf       == Len(fieldnames)
        lr       == Len(row)
        First(i) == \A j \in 1..(i - 1) : fieldnames[j] # fieldnames[i]
        LastOf(i) == CHOOSE k \in i..lf : fieldnames[k] = fieldnames[i]
                                          /\ \A j \in (k + 1)..lf : fieldnames[j] # fieldnames[i]
                firsts   == SelectSeq([i \in 1..lf |-> i], First)
        items    == [m \in 1..Len(firsts) |->
                       <<fieldnames[firsts[m]],
                         IF LastOf(firsts[m]) > lr THEN None ELSE row[LastOf(firsts[m])]>>]
    IN  IF lf < lr THEN Append(items, <<None, <<"rest">>>>) ELSE items

\* the canonical field normalize_row finds for a raw key without its byte-order mark
MappedCleanedKey(cleaned_key) ==
    FirstMapped(LookupGet(cleaned_key), LookupGet(Lower(cleaned_key)), None)

\* the canonical field normalize_row finds for a raw key, None when it finds none
MappedKey(raw_key) ==
    IF raw_key = None THEN None ELSE MappedCleanedKey(LStripChars(raw_key, {BOM}))

\* the loop of normalize_row over raw_row.items(), mapped[n] being the field of item n:
\* every field starts as None and takes the value of the last item that maps to it
NormalizeItems(raw_row, mapped) ==
    [field \in FieldNames |->
        LET hits == {n \in 1..Len(raw_row) : mapped[n] = field}
        IN  IF hits = {} THEN None
            ELSE raw_row[CHOOSE n \in hits : \A m \in hits : m <= n][2]]

\* normalize_row
NormalizeRow(raw_row) ==
    NormalizeItems(raw_row, [n \in 1..Len(raw_row) |-> MappedKey(raw_row[n][1])])

\* row.get(key)
RowGet(row, key) == DictGet(row, key)

\* the digits of the type text, or the text when it has fewer than three
CorpCode(corp_type, digits) == IF Len(digits) >= 3 THEN SubSeq(digits, 1, 3) ELSE corp_type

\* a plausible slip: the three-digit prefix is not taken, the whole text is compared
IsGeneralTypeWholeText(corp_type, valid_codes) ==
    IF corp_type = <<>> THEN FALSE ELSE corp_type \in valid_codes

\* row_is_general_corporation from the stripped type text on
IsGeneralType(corp_type, valid_codes) ==
    IF corp_type = <<>> THEN FALSE
    ELSE CorpCode(corp_type, OnlyDigits(corp_type)) \in valid_codes

\* row_is_general_corporation
RowIsGeneralCorporation(row, type_key, valid_codes) ==
    IsGeneralType(Strip(OrEmpty(RowGet(row, type_key))), valid_codes)

\* allowed_codes = {code.strip() for code in type_codes if code.strip()}
AllowedCodes(type_codes) == {Strip(type_codes[i]) : i \in 1..Len(type_codes)} \ {<<>>}

(***************************************************************************)
(* prepare_records: what the loop body makes of one normalized row.        *)
(***************************************************************************)
\* column.transform(row.get(column.csv_field)) for every column, in declared order
Transformed(row, column_definitions) ==
    [i \in 1..Len(column_definitions) |->
        ApplyTransform(column_definitions[i].transform,
                       RowGet(row, column_definitions[i].csv_field))]

\* a plausible slip: a failed transform leaves a null in the record and the loop goes on
RecordOfPadded(values, column_definitions) ==
    [skip   |-> FALSE,
     record |-> [i \in 1..Len(values) |-> IF IsError(values[i]) THEN None ELSE values[i]],
     field  |-> None]

\* the loop over column_definitions, values[i] being what the transform of column i
\* gives: it breaks at the first ValueError, record then holding the values before it
RecordOf(values, column_definitions) ==
    LET failed == {i \in 1..Len(values) : IsError(values[i])}
        first  == CHOOSE i \in failed : \A j \in failed : i <= j
    IN  IF failed = {} THEN [skip |-> FALSE, record |-> values, field |-> None]
        ELSE [skip   |-> TRUE,
              record |-> SubSeq(values, 1, first - 1),
              field  |-> column_definitions[first].csv_field]

\* record and skip at the end of the loop over column_definitions
BuildRecord(row, column_definitions) ==
    RecordOf(Transformed(row, column_definitions), column_definitions)

\* the end of one pass of the loop over rows: continue after the warning, or yield
YieldOrSkip(built) ==
    IF built.skip THEN [outcome |-> "skipped", record |-> None, field |-> built.field]
    ELSE [outcome |-> "yielded", record |-> built.record, field |-> None]

\* a plausible slip: the accepted set is not consulted for a row whose type is blank
PrepareRowBlankPasses(row, column_definitions, type_key, allowed_codes) ==
    IF /\ allowed_codes # {}
       /\ Strip(OrEmpty(RowGet(row, type_key))) # <<>>
       /\ ~RowIsGeneralCorporation(row, type_key, allowed_codes)
    THEN [outcome |-> "filtered", record |-> None, field |-> None]
    ELSE YieldOrSkip(BuildRecord(row, column_definitions))

\* one pass of the for loop of prepare_records: continue (filtered), continue after the
\* warning (skipped) or yield tuple(record)
PrepareRow(row, column_definitions, type_key, allowed_codes) ==
    IF allowed_codes # {} /\ ~RowIsGeneralCorporation(row, type_key, allowed_codes)
    THEN [outcome |-> "filtered", record |-> None, field |-> None]
    ELSE YieldOrSkip(BuildRecord(row, column_definitions))

(***************************************************************************)
(* The store: the rows of the table, and its schema.                       *)
(***************************************************************************)
\* [column.db_column for column in column_definitions]
DbColumns(column_definitions) ==
    [i \in 1..Len(column_definitions) |-> column_definitions[i].db_column]

ColumnNames == DbColumns(MEIREI_COLUMNS)

AllColumns == Range(ColumnNames)

\* the place of a name in a sequence of names
IndexIn(names, name) == CHOOSE i \in 1..Len(names) : names[i] = name

PkIndex == IndexIn(ColumnNames, PRIMARY_KEY_COLUMN)

\* build_insert_sql: the columns of DO UPDATE SET, every column but the primary key
UpdateColumns(columns) == {i \in 1..Len(columns) : columns[i] # PRIMARY_KEY_COLUMN}

\* a plausible slip: ON CONFLICT DO NOTHING, the stored row wins
UpsertAtKeepOld(table, record, pk, updates) ==
    IF \E row \in table : row[pk] = record[pk] THEN table ELSE table \cup {record}

\* the statement on a table: pk the place of the conflict target, updates the places
\* of the columns of DO UPDATE SET
UpsertAt(table, record, pk, updates) ==
    LET conflict == {row \in table : row[pk] = record[pk]}
    IN  IF conflict = {} THEN table \cup {record}
        ELSE (table \ conflict)
             \cup {[i \in 1..Len(record) |-> IF i \in updates THEN record[i] ELSE row[i]] :
                      row \in conflict}

\* INSERT ... ON CONFLICT (corporate_number) DO UPDATE SET col = EXCLUDED.col, ...
Upsert(table, record) == UpsertAt(table, record, PkIndex, UpdateColumns(ColumnNames))

RECURSIVE ExecuteBatch(_, _)
\* execute_batch(cur, insert_sql, batch): the statement once per record, in order
ExecuteBatch(table, records) ==
    IF records = <<>> THEN table
    ELSE ExecuteBatch(Upsert(table, Head(records)), Tail(records))

AbsentTable == [exists |-> FALSE, columns |-> {}, pk |-> "none", comments |-> <<>>]

\* ensure_table keeps in t the schema of the table and the structural statements that
\* changed it.  CREATE TABLE IF NOT EXISTS (columns, PRIMARY KEY (corporate_number))
CreateTable(t, column_definitions) ==
    IF t.schema.exists THEN t
    ELSE [schema |-> [exists   |-> TRUE,
                      columns  |-> Range(DbColumns(column_definitions)),
                      pk       |-> PRIMARY_KEY_COLUMN,
                      comments |-> [c \in Range(DbColumns(column_definitions)) |-> ""]],
          ddl    |-> t.ddl \cup {<<"CREATE TABLE">>}]

\* ALTER TABLE ADD COLUMN for the columns in missing
AddMissing(t, missing) ==
    [schema |-> [t.schema EXCEPT !.columns = @ \cup missing,
                                 !.comments = [c \in DOMAIN @ \cup missing |->
                                                  IF c \in DOMAIN @ THEN @[c] ELSE ""]],
     ddl    |-> t.ddl \cup {<<"ADD COLUMN", c>> : c \in missing}]

\* ALTER TABLE ADD COLUMN for every column the table does not have
AddColumns(t, column_definitions) ==
    AddMissing(t, Range(DbColumns(column_definitions)) \ t.schema.columns)

\* ALTER TABLE ADD PRIMARY KEY (corporate_number) when the table has no primary key
AddPrimaryKey(t) ==
    IF t.schema.pk # "none" THEN t
    ELSE [schema |-> [t.schema EXCEPT !.pk = PRIMARY_KEY_COLUMN],
          ddl    |-> t.ddl \cup {<<"ADD PRIMARY KEY", PRIMARY_KEY_COLUMN>>}]

\* a plausible slip: only the columns without a comment get their comment
CommentColumnsUncommented(t, column_definitions) ==
    [t EXCEPT !.schema.comments =
        [c \in DOMAIN @ |->
            IF @[c] = "" /\ \E i \in 1..Len(column_definitions) :
                               column_definitions[i].db_column = c
            THEN column_definitions[CHOOSE i \in 1..Len(column_definitions) :
                                       column_definitions[i].db_column = c].description
            ELSE @[c]]]

\* COMMENT ON COLUMN for every column that has a description
CommentColumns(t, column_definitions) ==
    [t EXCEPT !.schema.comments =
        [c \in DOMAIN @ |->
            IF \E i \in 1..Len(column_definitions) :
                  column_definitions[i].db_column = c /\ column_definitions[i].description # ""
            THEN column_definitions[CHOOSE i \in 1..Len(column_definitions) :
                                       column_definitions[i].db_column = c].description
            ELSE @[c]]]

\* ensure_table, when no statement fails: the schema it leaves and the structural
\* statements that changed it (CREATE TABLE IF NOT EXISTS on a table that exists, and
\* COMMENT ON COLUMN, are executed every time and are not listed)
EnsureTable(current, column_definitions) ==
    CommentColumns(
        AddPrimaryKey(
            AddColumns(CreateTable([schema |-> current, ddl |-> {}], column_definitions),
                       column_definitions)),
        column_definitions)

(***************************************************************************)
(* The inputs: configurations (the command line), and the physical rows    *)
(* csv.reader makes of the file.                                           *)
(***************************************************************************)
MaxRuns == 2

MaxRows == 3

MaxBatchSize == 2

\* parse_args: the defaults
DefaultConfig(batch_size) ==
    [type_column             |-> <<"k","i","n","d">>,
     type_codes              |-> DEFAULT_GENERAL_TYPE_CODES,
     corporate_number_column |-> <<"c","o","r","p","o","r","a","t","e","N","u","m","b","e","r">>,
     name_column             |-> <<"n","a","m","e">>,
     batch_size              |-> batch_size]

\* configurations of which one column is not a name of the registry
UnknownColumnConfigs ==
    {[DefaultConfig(1) EXCEPT !.type_column = <<"t","y","p","e">>],
     [DefaultConfig(1) EXCEPT !.corporate_number_column = <<"c","o","r","p">>],
     [DefaultConfig(1) EXCEPT !.name_column = <<" ">>]}

Configs == {DefaultConfig(b) : b \in 1..MaxBatchSize} \cup UnknownColumnConfigs

\* configurations that name the type column by an alias or change the accepted codes
PrepareConfigs ==
    {DefaultConfig(1),
     [DefaultConfig(1) EXCEPT !.type_column = <<"U+6CD5","U+4EBA","U+7A2E","U+5225">>],
     [DefaultConfig(1) EXCEPT !.type_column = <<" ","K","I","N","D">>],
     [DefaultConfig(1) EXCEPT !.type_codes = <<>>],
     [DefaultConfig(1) EXCEPT !.type_codes = << <<" ">> >>],
     [DefaultConfig(1) EXCEPT !.type_codes = << <<"9","9","9">>, <<" ","3","0","5"," ">> >>]}

\* a physical row of nine cells: sequenceNumber, corporateNumber, process, correct,
\* updateDate, changeDate, name, nameImageId, kind
Row(seq, corp, date, name, kind) == <<seq, corp, <<>>, <<>>, date, <<>>, name, <<>>, kind>>

RowA == Row(<<"1">>, <<"1","2","3","4","5","6","7","8","9","0","1","2","3">>, <<"2","0","2","0","/","0","4","/","0","1">>, <<"A">>, <<"3","0","1">>)

\* the corporate number of RowA under another name and type
RowB == Row(<<"2">>, <<"1","2","3","4","5","6","7","8","9","0","1","2","3">>, <<>>, <<"B">>, <<"3","0","2","0","0","1">>)

\* a type code outside the default codes
RowC == Row(<<"3">>, <<"1","2","3">>, <<>>, <<"A">>, <<"9","9","9">>)

RowD == Row(<<"4">>, <<"4","-","5">>, <<"2","0","2","0","0","4","0","1">>, <<"B">>, <<"3","0","2">>)

\* a blank type
RowE == Row(<<"5">>, <<"7","7">>, <<>>, <<"A">>, <<" ">>)

\* no corporate number
RowF == Row(<<"6">>, <<>>, <<>>, <<"A">>, <<"3","0","1">>)

\* a sequence number int() accepts and str.isdigit() does not
RowG == Row(<<"+","8">>, <<"8","8">>, <<>>, <<"A">>, <<"3","0","1">>)

\* an empty first cell
RowH == Row(<<>>, <<"9","9">>, <<>>, <<"A">>, <<"3","0","5">>)

\* a first cell that is a number behind a byte-order mark and inside quotes
RowJ == Row(<<"U+FEFF","\"","9","\"">>, <<"5","5">>, <<>>, <<"A">>, <<"3","0","1">>)

\* a date of no known pattern
RowI == Row(<<"7">>, <<"6","6">>, <<"n","o","t","-","a","-","d","a","t","e">>, <<"A">>, <<"3","0","1">>)

HeaderKeys ==
    <<<<"s","e","q","u","e","n","c","e","N","u","m","b","e","r">>, <<"c","o","r","p","o","r","a","t","e","N","u","m","b","e","r">>, <<"p","r","o","c","e","s","s">>, <<"c","o","r","r","e","c","t">>, <<"u","p","d","a","t","e","D","a","t","e">>, <<"c","h","a","n","g","e","D","a","t","e">>, <<"n","a","m","e">>, <<"n","a","m","e","I","m","a","g","e","I","d">>, <<"k","i","n","d">>>>

\* the labels of the first seven columns, behind a byte-order mark: no type column
HeaderLabels ==
    <<<<"U+FEFF","U+9806","U+5E8F","U+756A","U+53F7">>, <<"U+6CD5","U+4EBA","U+756A","U+53F7">>, <<"U+51E6","U+7406","U+533A","U+5206">>, <<"U+8A02","U+6B63","U+533A","U+5206">>, <<"U+66F4","U+65B0","U+5E74","U+6708","U+65E5">>, <<"U+5909","U+66F4","U+5E74","U+6708","U+65E5">>, <<"U+5546","U+53F7","U+53C8","U+306F","U+540D","U+79F0">>>>

DataRows == {RowA, RowB, RowC, RowD, RowG}

FirstRows == DataRows \cup {HeaderKeys}

PrepareRows == {RowA, RowE, RowF, RowH, <<>>}

PrepareFirstRows == PrepareRows \cup {RowC, RowG, RowI, RowJ, HeaderKeys, HeaderLabels}

ProbeColumns == {"corporate_number", "name"}

TableWith(missing, pk, comment) ==
    [exists   |-> TRUE,
     columns  |-> AllColumns \ missing,
     pk       |-> pk,
     comments |-> [c \in AllColumns \ missing |-> comment]]

InitSchemas ==
    {AbsentTable}
    \cup {TableWith(missing, pk, comment) :
             missing \in SUBSET ProbeColumns,
             pk \in {p \in {"none", PRIMARY_KEY_COLUMN, "sequence_number"} : p \notin ProbeColumns},
             comment \in {"", "stale"}}
    \cup {TableWith({"name"}, PRIMARY_KEY_COLUMN, ""), TableWith({}, PRIMARY_KEY_COLUMN, "stale")}

vars == <<pc, cfg, keys, header, file, pos, batch, total_inserted, txn, committed, schema,
          runs, drawn, last, emitted, skipped, flushed, log, cause, ensured, before, ddl,
          ncnInput, ncnResult>>

runVars == <<cfg, keys, header, file, pos, batch, total_inserted, last, emitted, skipped, flushed>>

ncnVars == <<ncnInput, ncnResult>>

Pending == <<"pending">>

\* no row has gone through the loop of prepare_records in this run
NoRow == [physical |-> None, row |-> None, outcome |-> "none", record |-> None, field |-> None]

(***************************************************************************)
(* main(): one action per step of a run.                                   *)
(***************************************************************************)
\* main() up to ensure_table: the arguments are parsed and the connection is opened
StartRun(configs) ==
    /\ pc \in {"idle", "done", "aborted"}
    /\ runs < MaxRuns
    /\ \E c \in configs : cfg' = c
    /\ pc' = "ensure"
    /\ runs' = runs + 1
    /\ keys' = None /\ header' = "unread" /\ file' = <<>> /\ pos' = 0
    /\ batch' = <<>> /\ total_inserted' = 0 /\ last' = NoRow
    /\ emitted' = 0 /\ skipped' = 0 /\ flushed' = <<>>
    /\ txn' = committed
    /\ cause' = "" /\ before' = None /\ ddl' = {}
    /\ UNCHANGED <<committed, schema, drawn, log, ensured, ncnVars>>

\* ensure_table returns: its transaction commits
EnsureTableOk ==
    /\ pc = "ensure"
    /\ \E ensured_table \in {EnsureTable(schema, MEIREI_COLUMNS)} :
          schema' = ensured_table.schema /\ ddl' = ensured_table.ddl
    /\ before' = schema
    /\ ensured' = ensured + 1
    /\ pc' = "insert"
    /\ UNCHANGED <<runVars, txn, committed, runs, drawn, log, cause, ncnVars>>

\* a statement of ensure_table raises: its transaction rolls back, main() ends
EnsureTableFail ==
    /\ pc = "ensure"
    /\ pc' = "aborted"
    /\ cause' = "schema"
    /\ UNCHANGED <<runVars, txn, committed, schema, runs, drawn, log, ensured, before, ddl, ncnVars>>

ResolvedKeys(c) ==
    [type_key      |-> ResolveColumnKey(c.type_column),
     corporate_key |-> ResolveColumnKey(c.corporate_number_column),
     name_key      |-> ResolveColumnKey(c.name_column)]

\* insert_records asks prepare_records for its first record: the generator starts and
\* resolves the three configured columns, raising KeyError for one that is unknown
ResolveConfig ==
    /\ pc = "insert"
    /\ \E k \in {ResolvedKeys(cfg)} :
          IF IsKeyError(k.type_key) \/ IsKeyError(k.corporate_key) \/ IsKeyError(k.name_key)
          THEN pc' = "aborted" /\ cause' = "config" /\ keys' = None
          ELSE pc' = "open" /\ cause' = cause /\ keys' = k
    /\ before' = None /\ ddl' = {}
    /\ UNCHANGED <<cfg, header, file, pos, batch, total_inserted, last, emitted, skipped, flushed,
                   txn, committed, schema, runs, drawn, log, ensured, ncnVars>>

\* read_rows on a file without a row: next(reader) raises StopIteration
OpenEmptyFile ==
    /\ pc = "open"
    /\ header' = "empty"
    /\ pc' = "finish"
    /\ UNCHANGED <<cfg, keys, file, pos, batch, total_inserted, last, emitted, skipped, flushed,
                   txn, committed, schema, runs, drawn, log, cause, ensured, before, ddl, ncnVars>>

\* read_rows peeks at the first physical row and rewinds; a header row is consumed as
\* the field names, any other first row is left to be read as data
OpenFile(first_rows) ==
    /\ pc = "open"
    /\ drawn < MaxRows
    /\ \E first_row \in first_rows :
          /\ file' = <<first_row>>
          /\ \E has_header \in {RowLooksLikeHeader(first_row)} :
                /\ header' = IF has_header THEN "header" ELSE "headerless"
                /\ pos' = IF has_header THEN 1 ELSE 0
    /\ drawn' = drawn + 1
    /\ pc' = "rows"
    /\ UNCHANGED <<cfg, keys, batch, total_inserted, last, emitted, skipped, flushed,
                   txn, committed, schema, runs, log, cause, ensured, before, ddl, ncnVars>>

\* DictReader.fieldnames
Fieldnames == IF header = "header" THEN file[1] ELSE ROW_FIELDNAMES

\* a plausible slip: the buffer is flushed only once it has outgrown batch_size
BatchIsFullLate(records, batch_size) == Len(records) > batch_size

\* if len(batch) >= batch_size, asked right after batch.append(record)
BatchIsFull(records, batch_size) == Len(records) >= batch_size

\* the next physical row goes through DictReader, normalize_row and the loop body of
\* prepare_records; a yielded record is appended to batch by insert_records
ReadRow(rows) ==
    /\ pc = "rows"
    /\ pos < Len(file) \/ drawn < MaxRows
    /\ \E physical \in (IF pos < Len(file) THEN {file[pos + 1]} ELSE rows) :
          /\ file' = IF pos < Len(file) THEN file ELSE Append(file, physical)
          /\ drawn' = IF pos < Len(file) THEN drawn ELSE drawn + 1
          /\ pos' = pos + 1
          /\ IF physical = <<>>
             THEN UNCHANGED <<last, batch, emitted, skipped, pc>>
             ELSE \E row \in {NormalizeRow(DictReaderRow(Fieldnames, physical))} :
                  \E out \in {PrepareRow(row, MEIREI_COLUMNS, keys.type_key,
                                          AllowedCodes(cfg.type_codes))} :
                      /\ last' = [physical |-> physical, row |-> row, outcome |-> out.outcome,
                                  record |-> out.record, field |-> out.field]
                      /\ emitted' = IF out.outcome = "yielded" THEN emitted + 1 ELSE emitted
                      /\ skipped' = IF out.outcome = "skipped" THEN skipped + 1 ELSE skipped
                      /\ batch' = IF out.outcome = "yielded" THEN Append(batch, out.record) ELSE batch
                      /\ pc' = IF out.outcome = "yielded" /\ BatchIsFull(batch', cfg.batch_size)
                               THEN "flush" ELSE "rows"
    /\ UNCHANGED <<cfg, keys, header, total_inserted, flushed, txn, committed, schema, runs,
                   log, cause, ensured, before, ddl, ncnVars>>

\* the file has no further row: both generators end and the for loop of insert_records exits
EndOfFile ==
    /\ pc = "rows"
    /\ pos >= Len(file)
    /\ pc' = "finish"
    /\ UNCHANGED <<runVars, txn, committed, schema, runs, drawn, log, cause, ensured, before,
                   ddl, ncnVars>>

\* the conflict target of the statement needs a unique constraint on corporate_number
UpsertAccepted == schema.pk = PRIMARY_KEY_COLUMN

\* a full batch: execute_batch returns, nothing is committed yet
FlushOk ==
    /\ pc = "flush"
    /\ UpsertAccepted
    /\ txn' = ExecuteBatch(txn, batch)
    /\ total_inserted' = total_inserted + Len(batch)
    /\ flushed' = flushed \o batch
    /\ batch' = <<>>
    /\ pc' = "rows"
    /\ UNCHANGED <<cfg, keys, header, file, pos, last, emitted, skipped, committed, schema, runs,
                   drawn, log, cause, ensured, before, ddl, ncnVars>>

\* a full batch: execute_batch raises DatabaseError, conn.rollback() and the re-raise
FlushFail ==
    /\ pc = "flush"
    /\ txn' = committed
    /\ pc' = "aborted"
    /\ cause' = "flush"
    /\ UNCHANGED <<runVars, committed, schema, runs, drawn, log, ensured, before, ddl, ncnVars>>

\* after the loop: the remainder is flushed, insert_records leaves "with conn" and the
\* transaction commits
FinishOk ==
    /\ pc = "finish"
    /\ batch = <<>> \/ UpsertAccepted
    /\ txn' = ExecuteBatch(txn, batch)
    /\ total_inserted' = total_inserted + Len(batch)
    /\ flushed' = flushed \o batch
    /\ committed' = txn'
    /\ log' = log \o flushed'
    /\ pc' = "done"
    /\ UNCHANGED <<cfg, keys, header, file, pos, batch, last, emitted, skipped, schema, runs,
                   drawn, cause, ensured, before, ddl, ncnVars>>

\* after the loop: the flush of the remainder raises DatabaseError
FinishFail ==
    /\ pc = "finish"
    /\ batch # <<>>
    /\ txn' = committed
    /\ pc' = "aborted"
    /\ cause' = "flush"
    /\ UNCHANGED <<runVars, committed, schema, runs, drawn, log, ensured, before, ddl, ncnVars>>

NcnIdle == ncnInput = <<>> /\ ncnResult = Pending

\* the state before the first run
InitRun ==
    /\ pc = "idle"
    /\ cfg = DefaultConfig(1) /\ keys = None /\ header = "unread" /\ file = <<>> /\ pos = 0
    /\ batch = <<>> /\ total_inserted = 0 /\ last = NoRow
    /\ emitted = 0 /\ skipped = 0 /\ flushed = <<>>
    /\ txn = {} /\ committed = {} /\ log = <<>>
    /\ runs = 0 /\ drawn = 0 /\ cause = "" /\ ensured = 0 /\ before = None /\ ddl = {}

Init == InitRun /\ schema \in InitSchemas /\ NcnIdle

Next ==
    \/ StartRun(Configs)
    \/ EnsureTableOk
    \/ EnsureTableFail
    \/ ResolveConfig
    \/ OpenEmptyFile
    \/ OpenFile(FirstRows)
    \/ ReadRow(DataRows)
    \/ EndOfFile
    \/ FlushOk
    \/ FlushFail
    \/ FinishOk
    \/ FinishFail

Spec == Init /\ [][Next]_vars

(***************************************************************************)
(* prepare_records alone, over more kinds of row and configuration, against *)
(* a store that accepts every statement.                                   *)
(***************************************************************************)
InitPrepare == InitRun /\ schema = AbsentTable /\ NcnIdle

NextPrepare ==
    \/ StartRun(PrepareConfigs)
    \/ EnsureTableOk
    \/ ResolveConfig
    \/ OpenEmptyFile
    \/ OpenFile(PrepareFirstRows)
    \/ ReadRow(PrepareRows)
    \/ EndOfFile
    \/ FlushOk
    \/ FinishOk

SpecPrepare == InitPrepare /\ [][NextPrepare]_vars

(***************************************************************************)
(* normalize_corporate_number alone: the input is any short text over the  *)
(* characters the function tells apart, or a run of digits with hyphens    *)
(* and surrounding whitespace; the result then goes through the record     *)
(* builder in the corporateNumber cell of an otherwise valid row.          *)
(***************************************************************************)
MaxTextLen == 3

MaxDigits == 14

NcnAlphabet == {" ", "-", "0", "7", "e", "E", ".", "a", "+"}

Texts(n) == UNION {[1..k -> NcnAlphabet] : k \in 0..n}

\* the digits 1, 2, ..., 9, 0, 1, ... : k of them
DigitRun(k) == [i \in 1..k |-> CHOOSE ch \in DigitChars : DigitValue(ch) = i % 10]

Hyphenated(text) ==
    IF Len(text) < 2 THEN <<"-">> \o text
    ELSE <<text[1], "-">> \o SubSeq(text, 2, Len(text)) \o <<"-">>

Padded(text) == <<" ">> \o text \o <<"\t", " ">>

NcnInputs ==
    {None} \cup Texts(MaxTextLen)
    \cup {DigitRun(k) : k \in 1..MaxDigits}
    \cup {Hyphenated(DigitRun(k)) : k \in 1..MaxDigits}
    \cup {Padded(Hyphenated(DigitRun(k))) : k \in 1..MaxDigits}

InitNorm ==
    /\ InitRun /\ schema = AbsentTable
    /\ ncnInput \in NcnInputs
    /\ ncnResult = Pending

\* normalize_corporate_number(raw_value): the value returned or the ValueError raised
Normalize ==
    /\ ncnResult = Pending
    /\ ncnResult' = NormalizeCorporateNumber(ncnInput)
    /\ UNCHANGED <<pc, runVars, txn, committed, schema, runs, drawn, log, cause, ensured,
                   before, ddl, ncnInput>>

\* one pass of the loop of prepare_records over a headerless row whose corporateNumber
\* cell is the input
PrepareNormalized ==
    /\ ncnResult # Pending
    /\ ncnInput # None
    /\ last.outcome = "none"
    /\ \E physical \in {Row(<<"1">>, ncnInput, <<>>, <<"A">>, <<"3", "0", "1">>)} :
       \E row \in {NormalizeRow(DictReaderRow(ROW_FIELDNAMES, physical))} :
       \E out \in {PrepareRow(row, MEIREI_COLUMNS, ResolveColumnKey(cfg.type_column),
                                AllowedCodes(cfg.type_codes))} :
          last' = [physical |-> physical, row |-> row, outcome |-> out.outcome,
                   record |-> out.record, field |-> out.field]
    /\ UNCHANGED <<pc, cfg, keys, header, file, pos, batch, total_inserted, emitted, skipped,
                   flushed, txn, committed, schema, runs, drawn, log, cause, ensured,
                   before, ddl, ncnVars>>

NextNorm == Normalize \/ PrepareNormalized

SpecNorm == InitNorm /\ [][NextNorm]_vars

(***************************************************************************)
(* insert_records alone, for every batch size, over rows that are yielded, *)
(* filtered or skipped, against a store that accepts every statement.      *)
(***************************************************************************)
InsertConfigs == {DefaultConfig(b) : b \in 1..MaxBatchSize}

\* two rows that are yielded, one that is filtered and one that is skipped
InsertRows == {RowA, RowD, RowC, RowI}

NextInsert ==
    \/ StartRun(InsertConfigs)
    \/ EnsureTableOk
    \/ ResolveConfig
    \/ OpenEmptyFile
    \/ OpenFile(InsertRows)
    \/ ReadRow(InsertRows)
    \/ EndOfFile
    \/ FlushOk
    \/ FinishOk

SpecInsert == InitPrepare /\ [][NextInsert]_vars

(***************************************************************************)
(* The claims.                                                             *)
(***************************************************************************)
\* the corporate number a record is stored under
KeyOf(record) == record[PkIndex]

\* C1: when the flush of a batch raises a data-store error and the run aborts, every
\* batch that was flushed successfully before it in that run is still in the store
C1_EarlierBatchesStayCommitted ==
    pc = "aborted" /\ cause = "flush"
        => \A i \in 1..Len(flushed) : \E row \in committed : row = flushed[i]

\* the index of the record written last under the key of records[i]
IsLastWrite(records, i) == \A j \in (i + 1)..Len(records) : KeyOf(records[j]) # KeyOf(records[i])

\* table is what last-writer-wins leaves of the records written in this order
LastWriterWins(table, records) ==
    /\ \A r1, r2 \in table : KeyOf(r1) = KeyOf(r2) => r1 = r2
    /\ \A row \in table : \E i \in 1..Len(records) : IsLastWrite(records, i) /\ row = records[i]
    /\ \A i \in 1..Len(records) : \E row \in table : KeyOf(row) = KeyOf(records[i])

\* C2: the store holds at most one row per corporate number, and that row equals the
\* record written last under the number: the committed rows against the records of the
\* committed runs, the rows of the open transaction against these and the records
\* flushed so far in the run
C2_UpsertLastWriterWins ==
    /\ LastWriterWins(committed, log)
    /\ pc \in {"rows", "flush", "finish"} => LastWriterWins(txn, log \o flushed)
    /\ pc \in {"idle", "done", "aborted"} => txn = committed

\* C2 witness: a committed run wrote two different records under one corporate number
\* and the store holds the later one
C2_Witness ==
    /\ pc = "done"
    /\ \E i, j \in 1..Len(log) :
          /\ i < j /\ KeyOf(log[i]) = KeyOf(log[j]) /\ log[i] # log[j]
          /\ IsLastWrite(log, j) /\ log[j] \in committed /\ log[i] \notin committed

\* the value of registry column i that the transform of the column makes of a row
TransformOf(row, i) ==
    ApplyTransform(MEIREI_COLUMNS[i].transform, RowGet(row, MEIREI_COLUMNS[i].csv_field))

\* C3: a row that passes the filter gives either one record with the transformed value
\* of every registry column in declared order, or, when a transform raises ValueError,
\* no record at all; the records handed on are the emitted ones and each is complete,
\* and after a dropped row the loop goes on
C3_NoPartialRecord ==
    /\ last.outcome = "yielded" =>
          /\ Len(last.record) = NumColumns
          /\ \A i \in 1..NumColumns :
                ~IsError(TransformOf(last.row, i)) /\ last.record[i] = TransformOf(last.row, i)
          /\ emitted >= 1
          /\ (flushed \o batch)[emitted] = last.record
    /\ last.outcome = "skipped" =>
          /\ \E i \in 1..NumColumns : IsError(TransformOf(last.row, i))
          /\ last.record = None
          /\ pc \in {"rows", "finish", "done"}
    /\ emitted = Len(flushed \o batch)
    /\ \A n \in 1..Len(flushed \o batch) :
          /\ Len((flushed \o batch)[n]) = NumColumns
          /\ \A i \in 1..NumColumns : ~IsError((flushed \o batch)[n][i])

\* C3 witness: a row was dropped for a failed transform and a later row of the same run
\* was emitted in full
C3_Witness ==
    /\ skipped >= 1
    /\ last.outcome = "yielded"
    /\ Len(last.record) = NumColumns
    /\ emitted = 1

\* the type field of the row is missing, empty or whitespace-only
TypeIsBlank(row, type_key) ==
    \/ type_key \notin DOMAIN row
    \/ row[type_key] = None
    \/ \A i \in 1..Len(row[type_key]) : row[type_key][i] \in WhitespaceChars

\* the original statement of C4: whatever the configured type codes, the empty
\* configuration included, no record is emitted for a row whose type field is blank
C4_BlankTypeNeverEmitted ==
    last.outcome # "none" /\ TypeIsBlank(last.row, keys.type_key) => last.outcome # "yielded"

\* C4: under every configuration that holds at least one non-blank type code, a row
\* whose type field is missing, empty or whitespace-only is rejected by the filter and
\* no record is emitted for it
C4_BlankTypeRejectedByNonEmptySet ==
    /\ last.outcome # "none"
    /\ TypeIsBlank(last.row, keys.type_key)
    /\ \E n \in 1..Len(cfg.type_codes) : \E i \in 1..Len(cfg.type_codes[n]) :
          cfg.type_codes[n][i] \notin WhitespaceChars
    => last.outcome = "filtered"

\* C4 witness: a row with a whitespace-only type was read under the default codes and
\* rejected
C4_Witness ==
    /\ last.outcome = "filtered"
    /\ last.physical = RowE
    /\ cfg.type_codes = DEFAULT_GENERAL_TYPE_CODES
    /\ TypeIsBlank(last.row, keys.type_key)

\* the first cell of the first physical row without byte-order mark, surrounding
\* whitespace and quotes; empty when the row has no cell
FirstCellText(first_row) ==
    IF first_row = <<>> THEN <<>>
    ELSE StripChars(Strip(LStripChars(first_row[1], {BOM})), {"\""})

IsPurelyNumeric(text) == text # <<>> /\ \A i \in 1..Len(text) : text[i] \in DigitChars

\* the fields of the row just read are the cells of the physical row by position, in
\* registry declaration order
ReadPositionally ==
    \A i \in 1..NumColumns :
        last.row[MEIREI_COLUMNS[i].csv_field]
            = IF i <= Len(last.physical) THEN last.physical[i] ELSE None

\* the original statement of C7: the first physical row is taken as the header row if
\* and only if its first cell, cleaned, is empty or is not purely numeric
C7_HeaderIffEmptyOrNotNumeric ==
    header \in {"header", "headerless"} =>
        (header = "header" <=>
            FirstCellText(file[1]) = <<>> \/ ~IsPurelyNumeric(FirstCellText(file[1])))

\* C7: the first physical row is taken as the header row if and only if its first cell,
\* cleaned, is non-empty and not purely numeric; otherwise the file is read as
\* headerless: the first row is read as data and every row gets the registry keys by
\* position
C7_HeaderIffNonEmptyNotNumeric ==
    /\ header \in {"header", "headerless"} =>
          (header = "header" <=>
              FirstCellText(file[1]) # <<>> /\ ~IsPurelyNumeric(FirstCellText(file[1])))
    /\ header = "header" /\ last.outcome # "none" => pos >= 2 /\ last.physical # file[1]
    /\ header = "headerless" /\ last.outcome # "none" => ReadPositionally
    /\ header = "headerless" /\ pos = 1 /\ file[1] # <<>> => last.physical = file[1]

\* C7 witness: a first row whose first cell is empty was read as the first data row of
\* a headerless file
C7_Witness ==
    /\ header = "headerless"
    /\ file[1] = RowH
    /\ pos = 1
    /\ last.physical = RowH
    /\ ReadPositionally

\* the decimal digits of an input, in order
DigitsIn(raw_value) ==
    IF raw_value = None THEN <<>>
    ELSE SelectSeq(raw_value, LAMBDA ch : ch \in DigitChars)

\* C5: normalize_corporate_number raises ValueError for the empty input and for every
\* input that holds no digit; it returns no value for them
C5_NoDigitIsRefused ==
    ncnResult # Pending /\ DigitsIn(ncnInput) = <<>> => IsError(ncnResult)

\* the input is digits with optional hyphens, inside optional surrounding whitespace
IsHyphenatedNumber(raw_value) ==
    /\ raw_value # None
    /\ \E from, to \in 1..Len(raw_value) :
          /\ from <= to
          /\ \A i \in 1..Len(raw_value) :
                IF i < from \/ i > to THEN raw_value[i] \in WhitespaceChars
                ELSE raw_value[i] \in DigitChars \cup {"-"}

\* text is exactly 13 characters, each a digit
IsThirteenDigits(text) == Len(text) = 13 /\ \A i \in 1..13 : text[i] \in DigitChars

\* C6: for digits with optional hyphens and surrounding whitespace,
\* normalize_corporate_number returns the digits behind as many zeros as make 13
\* characters when there are 1 to 13 digits and raises ValueError when there are more;
\* whatever it returns is 13 digit characters, and so is the corporate number of a
\* record that prepare_records emits
C6_ThirteenDigits ==
    /\ ncnResult # Pending /\ IsHyphenatedNumber(ncnInput) =>
          LET digits == DigitsIn(ncnInput)
          IN  /\ Len(digits) \in 1..13 =>
                    ncnResult = <<"str", [i \in 1..(13 - Len(digits)) |-> "0"] \o digits>>
              /\ Len(digits) > 13 => IsError(ncnResult)
    /\ ncnResult # Pending /\ ~IsError(ncnResult) =>
          ncnResult[1] = "str" /\ IsThirteenDigits(ncnResult[2])
    /\ last.outcome = "yielded" =>
          /\ KeyOf(last.record)[1] = "str" /\ IsThirteenDigits(KeyOf(last.record)[2])
          /\ ncnResult # Pending => KeyOf(last.record) = ncnResult

\* C6 witness: nine digits with hyphens inside whitespace came back zero-padded to 13
\* digits and were emitted as the corporate number of a record
C6_Witness ==
    /\ ncnInput = Padded(Hyphenated(DigitRun(9)))
    /\ ncnResult = <<"str", <<"0","0","0","0","1","2","3","4","5","6","7","8","9">>>>
    /\ last.outcome = "yielded"
    /\ KeyOf(last.record) = ncnResult

\* C8: after a successful ensure_table every registry column is present and carries its
\* registry description as comment, whatever the table was before; a later successful
\* ensure_table on the same store leaves columns, primary key and comments as they
\* were and adds neither a column nor a constraint
C8_EnsureTableIdempotent ==
    /\ pc = "insert" =>
          /\ schema.exists
          /\ \A i \in 1..NumColumns :
                /\ MEIREI_COLUMNS[i].db_column \in schema.columns
                /\ schema.comments[MEIREI_COLUMNS[i].db_column] = MEIREI_COLUMNS[i].description
    /\ pc = "insert" /\ ensured >= 2 => schema = before /\ ddl = {}

\* C8 witness: ensure_table has succeeded a second time on the store and changed nothing
C8_Witness ==
    /\ pc = "insert"
    /\ ensured = 2
    /\ before = schema
    /\ ddl = {}
    /\ \A i \in 1..NumColumns : MEIREI_COLUMNS[i].db_column \in schema.columns

\* the values of a physical row read by position, transformed column by column
PositionalRecord(physical) ==
    [i \in 1..NumColumns |->
        ApplyTransform(MEIREI_COLUMNS[i].transform,
                       IF i <= Len(physical) THEN physical[i] ELSE None)]

\* every field of the row is valid
HasValidFields(physical) ==
    physical # <<>> /\ \A i \in 1..NumColumns : ~IsError(PositionalRecord(physical)[i])

\* the first three digits of the type code of the row are one of the default codes
TypeCodeAccepted(physical) ==
    LET digits == DigitsIn(IF Len(physical) >= 9 THEN physical[9] ELSE None)
    IN  Len(digits) >= 3
        /\ \E n \in 1..Len(DEFAULT_GENERAL_TYPE_CODES) :
              DEFAULT_GENERAL_TYPE_CODES[n] = SubSeq(digits, 1, 3)

\* a first run with the default codes has ended well on a file of valid data rows with
\* pairwise distinct corporate numbers
RanOnValidHeaderlessFile ==
    /\ pc = "done" /\ runs = 1
    /\ cfg.type_codes = DEFAULT_GENERAL_TYPE_CODES
    /\ cfg.type_column = <<"k","i","n","d">>
    /\ file # <<>>
    /\ \A n \in 1..Len(file) : HasValidFields(file[n])
    /\ \A m, n \in 1..Len(file) :
          m # n => KeyOf(PositionalRecord(file[m])) # KeyOf(PositionalRecord(file[n]))

\* the store holds exactly the records of the rows with an accepted type code
StoresAcceptedRows ==
    committed = {PositionalRecord(file[n]) : n \in {m \in 1..Len(file) : TypeCodeAccepted(file[m])}}

\* the original statement of C9: a run with the default codes on a headerless file of
\* valid rows with distinct corporate numbers stores exactly the rows whose type code
\* starts with an accepted code
C9_StoresExactlyAcceptedRows == RanOnValidHeaderlessFile => StoresAcceptedRows

\* C9: a run with the default codes on a headerless file of valid rows with distinct
\* corporate numbers, the first cell of whose first row is empty or purely numeric,
\* stores exactly the rows whose type code starts with an accepted code, each under its
\* 13-digit corporate number
C9_StoresAcceptedRowsOfNumberedFile ==
    /\ RanOnValidHeaderlessFile
    /\ FirstCellText(file[1]) = <<>> \/ IsPurelyNumeric(FirstCellText(file[1]))
    => /\ StoresAcceptedRows
       /\ \A row \in committed : KeyOf(row)[1] = "str" /\ IsThirteenDigits(KeyOf(row)[2])

\* C9 witness: three rows of type 301, 999 and 302 gave two stored records
C9_Witness ==
    /\ RanOnValidHeaderlessFile
    /\ file = <<RowA, RowC, RowD>>
    /\ Cardinality(committed) = 2
    /\ committed = {PositionalRecord(RowA), PositionalRecord(RowD)}

\* the configured name, trimmed, is a field name or an alias of the registry, as
\* written or in lower case
ResolvesToRegistryField(column_name) ==
    \E i \in 1..NumColumns :
        \E known \in {MEIREI_COLUMNS[i].csv_field}
                     \cup {MEIREI_COLUMNS[i].aliases[n] : n \in 1..Len(MEIREI_COLUMNS[i].aliases)} :
            \/ Strip(column_name) \in {known, Lower(known)}
            \/ Lower(Strip(column_name)) \in {known, Lower(known)}

\* C10: in a run whose configured type, corporate-number or name column does not
\* resolve to a registry field, the run never gets past resolution: it ends aborted, no
\* row of the file has been read, filtered or transformed, and nothing has been written
C10_UnresolvedColumnAbortsFirst ==
    /\ runs >= 1
    /\ \/ ~ResolvesToRegistryField(cfg.type_column)
       \/ ~ResolvesToRegistryField(cfg.corporate_number_column)
       \/ ~ResolvesToRegistryField(cfg.name_column)
    => /\ pc \in {"ensure", "insert", "aborted"}
       /\ pc = "aborted" => cause \in {"schema", "config"}
       /\ header = "unread" /\ file = <<>> /\ pos = 0
       /\ last.outcome = "none" /\ emitted = 0 /\ skipped = 0
       /\ batch = <<>> /\ flushed = <<>> /\ total_inserted = 0
       /\ txn = committed

\* C10 witness: a run configured with a blank name column was aborted at resolution
C10_Witness ==
    /\ pc = "aborted"
    /\ cause = "config"
    /\ cfg.name_column = <<" ">>
    /\ header = "unread"
    /\ txn = committed

\* C11: after a successful ensure_table, whether the table was absent, had no primary
\* key or already had one, the primary key of the table is on corporate_number, the
\* conflict target of the upsert statement
C11_PrimaryKeyOnConflictTarget ==
    pc = "insert" => schema.exists /\ schema.pk = PRIMARY_KEY_COLUMN

\* what prepare_records makes of the physical row at a place of the file in this run
OutcomeAt(i) ==
    IF i <= (IF header = "header" THEN 1 ELSE 0) \/ file[i] = <<>>
    THEN [outcome |-> "none", record |-> None, field |-> None]
    ELSE PrepareRow(NormalizeRow(DictReaderRow(Fieldnames, file[i])), MEIREI_COLUMNS,
                    keys.type_key, AllowedCodes(cfg.type_codes))

\* the members of a set of places that come no later than a place
UpTo(places, i) == {j \in places : j <= i}

\* the records among outcomes that were yielded, at those places, in increasing order
RecordsAt(outcomes, places) ==
    [k \in 1..Cardinality(places) |->
        outcomes[CHOOSE i \in places : Cardinality(UpTo(places, i)) = k].record]

\* the records that were yielded among the outcomes of the rows read, in the order read
YieldedOf(outcomes) ==
    RecordsAt(outcomes, {i \in DOMAIN outcomes : outcomes[i].outcome = "yielded"})

\* the records insert_records has taken from its input sequence so far, in input order
Consumed == YieldedOf([i \in 1..pos |-> OutcomeAt(i)])

\* what insert_records has done with the records it has consumed, batch_size being >= 1
FlushedOnceInOrder(consumed, batch_size) ==
    /\ pc \in {"rows", "flush", "finish"} =>
          /\ Len(batch) <= batch_size
          /\ pc = "flush" <=> Len(batch) = batch_size
          /\ flushed \o batch = consumed
          /\ Len(flushed) % batch_size = 0
          /\ total_inserted = Len(flushed)
    /\ pc = "done" =>
          /\ flushed = consumed
          /\ total_inserted = Len(consumed)
          /\ Len(batch) = Len(consumed) % batch_size
          /\ SubSeq(consumed, Len(consumed) - Len(batch) + 1, Len(consumed)) = batch

\* C12: in a run of insert_records with batch_size >= 1 that has met no store error, the
\* buffer never holds more than batch_size records; it is flushed exactly when it
\* reaches batch_size and once more after the loop when a remainder is left; the
\* records flushed, followed by those still buffered, are the records consumed, each
\* once and in input order; the total returned is the number of records consumed
C12_EveryRecordFlushedOnceInOrder ==
    pc \in {"rows", "flush", "finish", "done"} /\ cfg.batch_size >= 1
        => FlushedOnceInOrder(Consumed, cfg.batch_size)

\* C12 witness: with batch_size 2, three records were consumed; the first two went in
\* a full batch, the third in the flush of the remainder, and 3 is returned
C12_Witness ==
    /\ pc = "done"
    /\ cfg.batch_size = 2
    /\ Len(Consumed) = 3
    /\ flushed = Consumed
    /\ batch = <<Consumed[3]>>
    /\ total_inserted = 3

====
